---------------------------- MODULE Spec2Model ----------------------------
(***************************************************************************)
(* A model of the ksuid crate: the 20-byte identifier (src/src/lib.rs) and *)
(* the base converter behind its Base62 form (src/src/base62.rs).          *)
(*                                                                         *)
(* Bytes are the integers 0..255.  Byte strings, slices and str values are *)
(* sequences of bytes (index 1 here is index 0 in the source).  A u32 is   *)
(* the pair <<hi, lo>> of its two 16-bit halves, value hi * 65536 + lo,    *)
(* because the model checker's integers stop at 2^31 - 1.                  *)
(***************************************************************************)
EXTENDS Integers, Sequences, FiniteSets, TLC

(***************************************************************************)
(* Constants of lib.rs and base62.rs                                       *)
(***************************************************************************)
LEN == 20

BASE62_LEN == 27

HEX_LEN == 40

PAYLOAD_LEN == 16

EMPTY == [i \in 1..LEN |-> 0]

\* Timespec {sec: 1_400_000_000, nsec: 0}
EPOCH == [sec |-> 1400000000, nsec |-> 0]

\* b"0123456789ABCDEF"
HEX_DIGITS ==
  <<48, 49, 50, 51, 52, 53, 54, 55, 56, 57, 65, 66, 67, 68, 69, 70>>

\* b"aWgEPTl1tmebfsQzFP4bxwgy80V"
MAX_BASE62_KSUID ==
  <<97, 87, 103, 69, 80, 84, 108, 49, 116, 109, 101, 98, 102, 115, 81, 122,
    70, 80, 52, 98, 120, 119, 103, 121, 56, 48, 86>>

\* b"0123456789ABCDEFGHIJKLMNOPQRSTUVWXYZabcdefghijklmnopqrstuvwxyz"
\* The alphabet with a fault: the lower-case letters before the upper-case.
CHAR_MAP_lower_first ==
  <<48, 49, 50, 51, 52, 53, 54, 55, 56, 57,
    97, 98, 99, 100, 101, 102, 103, 104, 105, 106, 107, 108, 109, 110, 111,
    112, 113, 114, 115, 116, 117, 118, 119, 120, 121, 122,
    65, 66, 67, 68, 69, 70, 71, 72, 73, 74, 75, 76, 77, 78, 79, 80, 81, 82,
    83, 84, 85, 86, 87, 88, 89, 90>>

CHAR_MAP ==
  <<48, 49, 50, 51, 52, 53, 54, 55, 56, 57,
    65, 66, 67, 68, 69, 70, 71, 72, 73, 74, 75, 76, 77, 78, 79, 80, 81, 82,
    83, 84, 85, 86, 87, 88, 89, 90,
    97, 98, 99, 100, 101, 102, 103, 104, 105, 106, 107, 108, 109, 110, 111,
    112, 113, 114, 115, 116, 117, 118, 119, 120, 121, 122>>

\* The inverse table, one entry per 7-bit ASCII code (entry c + 1 for code c).
BYTE_MAP ==
  <<-1, -1, -1, -1, -1, -1, -1, -1, -1, -1, -1, -1, -1, -1, -1, -1,
    -1, -1, -1, -1, -1, -1, -1, -1, -1, -1, -1, -1, -1, -1, -1, -1,
    -1, -1, -1, -1, -1, -1, -1, -1, -1, -1, -1, -1, -1, -1, -1, -1,
     0,  1,  2,  3,  4,  5,  6,  7,  8,  9, -1, -1, -1, -1, -1, -1,
    -1, 10, 11, 12, 13, 14, 15, 16, 17, 18, 19, 20, 21, 22, 23, 24,
    25, 26, 27, 28, 29, 30, 31, 32, 33, 34, 35, -1, -1, -1, -1, -1,
    -1, 36, 37, 38, 39, 40, 41, 42, 43, 44, 45, 46, 47, 48, 49, 50,
    51, 52, 53, 54, 55, 56, 57, 58, 59, 60, 61, -1, -1, -1, -1, -1>>

(***************************************************************************)
(* Values of the standard library the code relies on                       *)
(***************************************************************************)
Zeros(n) == [i \in 1..n |-> 0]

Fill(n, v) == [i \in 1..n |-> v]

\* io::Error::new(io::ErrorKind::InvalidData, msg)
InvalidData(msg) == [kind |-> "InvalidData", msg |-> msg]

\* Ok(Ksuid(val)); cb tells whether change_base was entered on the way.
Ok(val, cb) ==
  [ok |-> TRUE, panic |-> FALSE, val |-> val, kind |-> "", msg |-> "",
   cb |-> cb]

\* Err(e)
Err(e, cb) ==
  [ok |-> FALSE, panic |-> FALSE, val |-> <<>>, kind |-> e.kind,
   msg |-> e.msg, cb |-> cb]

\* The call unwound with a panic instead of returning.
Panicked ==
  [ok |-> FALSE, panic |-> TRUE, val |-> <<>>, kind |-> "", msg |-> "",
   cb |-> TRUE]

\* Ord for [u8] and for str: lexicographic on bytes, a proper prefix first.
RECURSIVE SliceLessFrom(_, _, _)
SliceLessFrom(a, b, i) ==
  IF i > Len(b) THEN FALSE
  ELSE IF i > Len(a) THEN TRUE
  ELSE IF a[i] # b[i] THEN a[i] < b[i]
  ELSE SliceLessFrom(a, b, i + 1)

SliceLess(a, b) == SliceLessFrom(a, b, 1)

\* u8::to_ascii_lowercase
to_ascii_lowercase(c) == IF c \in 65..90 THEN c + 32 ELSE c

\* u8::eq_ignore_ascii_case
eq_ignore_ascii_case(a, b) == to_ascii_lowercase(a) = to_ascii_lowercase(b)

\* Ord for u32, on the two halves.
U32Less(s, t) == s[1] < t[1] \/ (s[1] = t[1] /\ s[2] < t[2])

(***************************************************************************)
(* base62.rs                                                               *)
(***************************************************************************)
\* BYTE_MAP[usize::from(c)]; indexing past the table panics, which
\* decode_raw's test of the high bit rules out before the call.
b62_to_bin(c) == BYTE_MAP[c + 1]

\* The for loop of one long-division pass: j runs over num, i counts the
\* quotient digits written back, rem is the running remainder.
RECURSIVE DividePass(_, _, _, _, _, _)
\* The pass with a fault: every zero quotient digit is dropped, not only the
\* leading ones (the test i != 0 is missing).
DividePassSkipZero(num, j, i, rem, in_base, out_base) ==
  IF j > Len(num) THEN [num |-> num, i |-> i, rem |-> rem]
  ELSE LET acc == num[j] + in_base * rem
           div == acc \div out_base
       IN  IF div # 0
           THEN DividePass([num EXCEPT ![i + 1] = div % 256], j + 1, i + 1,
                           acc % out_base, in_base, out_base)
           ELSE DividePass(num, j + 1, i, acc % out_base, in_base, out_base)

DividePass(num, j, i, rem, in_base, out_base) ==
  IF j > Len(num) THEN [num |-> num, i |-> i, rem |-> rem]
  ELSE LET acc == num[j] + in_base * rem
           div == acc \div out_base
       IN  IF i # 0 \/ div # 0
           THEN DividePass([num EXCEPT ![i + 1] = div % 256], j + 1, i + 1,
                           acc % out_base, in_base, out_base)
           ELSE DividePass(num, j + 1, i, acc % out_base, in_base, out_base)

\* One iteration of the while loop, entered with num non-empty: the pass,
\* then k -= 1, out[k] = rem, num.resize_to(i).  With k = 0 the subtraction
\* overflows (a panic in a checked build) or wraps, and then out.get_mut(k)
\* is None and expect panics: the iteration panics in every build.
\* The iteration with a fault: with k = 0 it drops the digit and goes on.
LoopBodyNoCheck(num, out, k, in_base, out_base) ==
  LET d == DividePass(num, 1, 0, 0, in_base, out_base)
  IN  [panic |-> FALSE, num |-> SubSeq(d.num, 1, d.i),
       out |-> IF k = 0 THEN out ELSE [out EXCEPT ![k] = d.rem % 256],
       k |-> IF k = 0 THEN 0 ELSE k - 1]

LoopBody(num, out, k, in_base, out_base) ==
  LET d == DividePass(num, 1, 0, 0, in_base, out_base)
  IN  IF k = 0
      THEN [panic |-> TRUE, num |-> d.num, out |-> out, k |-> k]
      ELSE [panic |-> FALSE, num |-> SubSeq(d.num, 1, d.i),
            out |-> [out EXCEPT ![k] = d.rem % 256], k |-> k - 1]

\* while num.len() > 0 { ... }
RECURSIVE WhileLoop(_, _, _, _, _)
WhileLoop(num, out, k, in_base, out_base) ==
  IF Len(num) = 0 THEN [panic |-> FALSE, out |-> out, k |-> k]
  ELSE LET s == LoopBody(num, out, k, in_base, out_base)
       IN  IF s.panic THEN [panic |-> TRUE, out |-> s.out, k |-> s.k]
           ELSE WhileLoop(s.num, s.out, s.k, in_base, out_base)

\* change_base(num, out, in_base, out_base): out as left behind, or a panic.
change_base(num, out, in_base, out_base) ==
  WhileLoop(num, out, Len(out), in_base, out_base)

\* The second loop of encode_raw: every digit through CHAR_MAP.
MapChars(digits) == [i \in 1..Len(digits) |-> CHAR_MAP[digits[i] + 1]]

\* encode_raw(input, output): output as left behind, or a panic.
encode_raw(input, output) ==
  LET c == change_base(input, output, 256, 62)
  IN  IF c.panic THEN [panic |-> TRUE, out |-> c.out]
      ELSE [panic |-> FALSE, out |-> MapChars(c.out)]

\* The first loop of decode_raw, from position i on: each character becomes
\* its digit in place; the first bad one ends the call with its error.
RECURSIVE MapDigits(_, _)
\* The loop with a fault: the test b < 0 is missing, so -1 as u8 is a digit.
MapDigitsNoTableCheck(input, i) ==
  IF i > Len(input) THEN [err |-> FALSE, msg |-> "", digits |-> input]
  ELSE IF input[i] >= 128
  THEN [err |-> TRUE, msg |-> "Non-ASCII character in input",
        digits |-> input]
  ELSE MapDigits([input EXCEPT ![i] = b62_to_bin(input[i]) % 256], i + 1)

MapDigits(input, i) ==
  IF i > Len(input) THEN [err |-> FALSE, msg |-> "", digits |-> input]
  ELSE IF input[i] >= 128
  THEN [err |-> TRUE, msg |-> "Non-ASCII character in input",
        digits |-> input]
  ELSE IF b62_to_bin(input[i]) < 0
  THEN [err |-> TRUE, msg |-> "Invalid base62 character in input",
        digits |-> input]
  ELSE MapDigits([input EXCEPT ![i] = b62_to_bin(input[i])], i + 1)

\* decode_raw(input, output): Ok with output filled, Err, or a panic.
decode_raw(input, output) ==
  LET m == MapDigits(input, 1)
  IN  IF m.err THEN Err(InvalidData(m.msg), FALSE)
      ELSE LET c == change_base(m.digits, output, 62, 256)
           IN  IF c.panic THEN Panicked ELSE Ok(c.out, TRUE)

(***************************************************************************)
(* lib.rs                                                                  *)
(***************************************************************************)
\* hex_digit(c): the position in HEX_DIGITS of the first digit equal to c
\* up to ASCII case; -1 stands for the Err.
RECURSIVE HexPosition(_, _)
HexPosition(c, idx) ==
  IF idx > Len(HEX_DIGITS) THEN -1
  ELSE IF eq_ignore_ascii_case(c, HEX_DIGITS[idx]) THEN idx - 1
  ELSE HexPosition(c, idx + 1)

\* hex_digit with a fault: the comparison minds the case.
RECURSIVE HexPositionExact(_, _)
HexPositionExact(c, idx) ==
  IF idx > Len(HEX_DIGITS) THEN -1
  ELSE IF c = HEX_DIGITS[idx] THEN idx - 1
  ELSE HexPositionExact(c, idx + 1)

hex_digit_case_sensitive(c) == HexPositionExact(c, 1)

hex_digit(c) == HexPosition(c, 1)

\* BigEndian::write_u32(self.0.as_mut(), timestamp)
set_timestamp(self, ts) ==
  [self EXCEPT ![1] = ts[1] \div 256, ![2] = ts[1] % 256,
               ![3] = ts[2] \div 256, ![4] = ts[2] % 256]

\* BigEndian::read_u32(self.0.as_ref())
\* timestamp with a fault: the bytes are read little-endian.
timestamp_le(self) == <<self[4] * 256 + self[3], self[2] * 256 + self[1]>>

timestamp(self) == <<self[1] * 256 + self[2], self[3] * 256 + self[4]>>

\* &self.0[4..]
payload(self) == SubSeq(self, 5, LEN)

\* (&mut self.0[4..]).copy_from_slice(payload.as_ref())
\* set_payload with a fault: the payload is copied to the start of the bytes.
set_payload_from_start(self, p) ==
  [i \in 1..LEN |-> IF i <= PAYLOAD_LEN THEN p[i] ELSE self[i]]

set_payload(self, p) ==
  [i \in 1..LEN |-> IF i <= 4 THEN self[i] ELSE p[i - 4]]

\* Ksuid::new(timestamp, payload)
new(ts, p) == set_payload(set_timestamp(EMPTY, ts), p)

\* Timespec - Timespec of the time crate: the Duration between them, whole
\* seconds and 0..999_999_999 nanoseconds on top.
TimespecSub(a, b) ==
  IF a.nsec - b.nsec < 0
  THEN [secs |-> a.sec - b.sec - 1, nanos |-> a.nsec - b.nsec + 1000000000]
  ELSE [secs |-> a.sec - b.sec, nanos |-> a.nsec - b.nsec]

\* Duration::num_seconds(): the whole seconds, rounded towards zero.
num_seconds(d) == IF d.secs < 0 /\ d.nanos > 0 THEN d.secs + 1 ELSE d.secs

\* n as u32: the low 32 bits of an i64, as the two halves.
AsU32(n) == <<((n - (n % 65536)) \div 65536) % 65536, n % 65536>>

\* Ksuid::set_time(time)
set_time(self, time) ==
  set_timestamp(self, AsU32(num_seconds(TimespecSub(time, EPOCH))))

\* Ksuid::with_payload(payload), with now for what time::get_time() returns.
with_payload(now, p) == new(AsU32(num_seconds(TimespecSub(now, EPOCH))), p)

\* self.0.as_ref()
as_bytes(self) == self

\* derive(Ord, PartialOrd) on Ksuid([u8; LEN])
KsuidLess(x, y) == SliceLess(x, y)

\* Ksuid::from_bytes(raw)
from_bytes(raw) ==
  IF Len(raw) # LEN
  THEN Err(InvalidData("Ksuids are 20 bytes long"), FALSE)
  ELSE Ok(raw, FALSE)

\* Ksuid::to_hex(): two digits pushed per byte, the high nibble first.
to_hex(self) ==
  [i \in 1..(2 * Len(as_bytes(self))) |->
     IF i % 2 = 1 THEN HEX_DIGITS[(as_bytes(self)[(i + 1) \div 2] \div 16) + 1]
     ELSE HEX_DIGITS[(as_bytes(self)[i \div 2] % 16) + 1]]

\* The loop of from_hex over the pairs of hex and the places of ret, from
\* place n on; the first character that is no hex digit ends the call.
RECURSIVE HexPairs(_, _, _)
HexPairs(hex, ret, n) ==
  IF n > LEN THEN Ok(ret, FALSE)
  ELSE LET upper == hex_digit(hex[2 * n - 1])
           lower == hex_digit(hex[2 * n])
       IN  IF upper < 0 \/ lower < 0
           THEN Err(InvalidData("Invalid hex character in input"), FALSE)
           ELSE HexPairs(hex, [ret EXCEPT ![n] = (upper * 16 + lower) % 256],
                         n + 1)

\* Ksuid::from_hex(hex)
from_hex(hex) ==
  IF Len(hex) # HEX_LEN
  THEN Err(InvalidData("Hex string must be 40 bytes long"), FALSE)
  ELSE HexPairs(hex, EMPTY, 1)

\* Ksuid::from_base62(s)
\* from_base62 with a fault: the maximum itself is rejected (>= for >).
from_base62_max_exclusive(s) ==
  IF Len(s) # BASE62_LEN \/ ~SliceLess(s, MAX_BASE62_KSUID)
  THEN Err(InvalidData("Invalid id"), FALSE)
  ELSE decode_raw(s, EMPTY)

\* from_base62 with a fault: the string is decoded before it is compared
\* with the maximum.
from_base62_decode_first(s) ==
  IF Len(s) # BASE62_LEN
  THEN Err(InvalidData("Invalid id"), FALSE)
  ELSE LET d == decode_raw(s, EMPTY)
       IN  IF SliceLess(MAX_BASE62_KSUID, s)
           THEN Err(InvalidData("Invalid id"), d.cb)
           ELSE d

\* from_base62 with a fault: the comparison with the maximum is missing.
from_base62_no_max_check(s) ==
  IF Len(s) # BASE62_LEN
  THEN Err(InvalidData("Invalid id"), FALSE)
  ELSE decode_raw(s, EMPTY)

from_base62(s) ==
  IF Len(s) # BASE62_LEN \/ SliceLess(MAX_BASE62_KSUID, s)
  THEN Err(InvalidData("Invalid id"), FALSE)
  ELSE decode_raw(s, EMPTY)

\* to_base62 with a fault: the buffer is one place short.
to_base62_short_buffer(self) == encode_raw(self, Zeros(BASE62_LEN - 1))

\* Ksuid::to_base62(): the String, or a panic out of encode_raw.
to_base62(self) == encode_raw(self, Zeros(BASE62_LEN))

(***************************************************************************)
(* Inputs                                                                  *)
(***************************************************************************)
\* How many places of PosList an encoded string is altered at.
MaxVariantPos == 3

\* Places of a string, spread over it; Altered uses the first few that fit.
PosList == <<1, 27, 14, 2, 26, 40, 9, 39>>

VariantPos(n) ==
  {PosList[i] : i \in {j \in 1..Len(PosList) :
                         j <= MaxVariantPos /\ PosList[j] <= n}}

\* Timestamps: 0, 1, 256, 1000, 94985761 (the documented vector), 2^31 and
\* u32::MAX.
TsSamples ==
  {<<0, 0>>, <<0, 1>>, <<0, 256>>, <<0, 1000>>, <<1449, 24097>>,
   <<32768, 0>>, <<65535, 65535>>}

\* Times given to set_time and read from the clock: the epoch, 1000 s after
\* it, the time of the documented vector, one second and a half after the
\* epoch, and one second before it.
TimeSamples ==
  {EPOCH, [sec |-> 1400001000, nsec |-> 0], [sec |-> 1494985761, nsec |-> 0],
   [sec |-> 1400000001, nsec |-> 500000000],
   [sec |-> 1399999999, nsec |-> 0]}

\* The payload of the documented vector 05A95E21 D7B6FE8C...9421210B.
VectorPayload ==
  <<215, 182, 254, 140, 215, 207, 242, 17, 112, 77, 142, 123, 148, 33, 33,
    11>>

PayloadSamples ==
  {Fill(PAYLOAD_LEN, 0), Fill(PAYLOAD_LEN, 255), VectorPayload,
   [Fill(PAYLOAD_LEN, 0) EXCEPT ![PAYLOAD_LEN] = 1],
   [Fill(PAYLOAD_LEN, 0) EXCEPT ![1] = 1],
   [Fill(PAYLOAD_LEN, 171) EXCEPT ![8] = 10]}

\* The 20-byte buffers identifiers are first read from.
BufSamples ==
  {Fill(LEN, 0), Fill(LEN, 255), new(<<1449, 24097>>, VectorPayload),
   [Fill(LEN, 0) EXCEPT ![LEN] = 1]}

\* Buffers of another length, for from_bytes.
BadBufSamples == {<<>>, Fill(LEN - 1, 7), Fill(LEN + 1, 7)}

\* "0o5Fs0EELR0fUjHjbCnEtdUwQe3", the documented Base62 vector.
VectorBase62 ==
  <<48, 111, 53, 70, 115, 48, 69, 69, 76, 82, 48, 102, 85, 106, 72, 106, 98,
    67, 110, 69, 116, 100, 85, 119, 81, 101, 51>>

\* "05a95e21D7B6Fe8CD7Cff211704d8E7B9421210B", the documented hex vector.
VectorHex ==
  <<48, 53, 97, 57, 53, 101, 50, 49, 68, 55, 66, 54, 70, 101, 56, 67, 68, 55,
    67, 102, 102, 50, 49, 49, 55, 48, 52, 100, 56, 69, 55, 66, 57, 52, 50,
    49, 50, 49, 48, 66>>

\* s with the bytes of r written over it from place p on; r must fit.
Overwrite(s, p, r) ==
  [i \in 1..Len(s) |-> IF i >= p /\ i < p + Len(r) THEN r[i - p + 1] ELSE s[i]]

\* The bytes written over a string: '!', '0', 'V', 'z', '{', and the two
\* bytes of U+00E9 (a str holds whole UTF-8 sequences).
Replacements == {<<33>>, <<48>>, <<86>>, <<122>>, <<123>>, <<195, 169>>}

\* s altered at one of the places, its length kept.
Altered(s) ==
  {Overwrite(s, p, r) : p \in {q \in VariantPos(Len(s)) : q < Len(s)},
                        r \in Replacements}
  \cup {Overwrite(s, Len(s), r) : r \in {x \in Replacements : Len(x) = 1}}

\* Strings handed to from_base62 that no to_base62 call produced.
Base62Samples ==
  {MAX_BASE62_KSUID, VectorBase62, Fill(BASE62_LEN, 122),
   Fill(BASE62_LEN, 48), Fill(BASE62_LEN - 1, 48), Fill(BASE62_LEN + 1, 48),
   <<>>, Fill(BASE62_LEN + 1, 122),
   [MAX_BASE62_KSUID EXCEPT ![BASE62_LEN] = 87],
   [MAX_BASE62_KSUID EXCEPT ![1] = 98],
   [Fill(BASE62_LEN, 122) EXCEPT ![BASE62_LEN] = 33],
   [Fill(BASE62_LEN, 122) EXCEPT ![2] = 33],
   Overwrite(Fill(BASE62_LEN, 122), 5, <<195, 169>>),
   Overwrite(Fill(BASE62_LEN, 48), 5, <<195, 169>>),
   [Fill(BASE62_LEN, 48) EXCEPT ![BASE62_LEN] = 33],
   [VectorBase62 EXCEPT ![1] = 33],
   Fill(BASE62_LEN, 123)}

\* s with the letters at the places of mask in lower case.
Lowercased(s, mask) ==
  [i \in 1..Len(s) |-> IF i \in mask THEN to_ascii_lowercase(s[i]) ELSE s[i]]

\* The sets of places lowercased: all, one place each, the odd, the even.
Masks(n) ==
  {1..n, {i \in 1..n : i % 2 = 1}, {i \in 1..n : i % 2 = 0}}
  \cup {{p} : p \in 1..n}

\* Strings handed to from_hex that no to_hex call produced.
HexSamples ==
  {VectorHex, Fill(HEX_LEN, 102), Fill(HEX_LEN, 70), Fill(HEX_LEN - 1, 48),
   Fill(HEX_LEN + 1, 48), <<>>, [Fill(HEX_LEN, 48) EXCEPT ![HEX_LEN] = 71],
   [Fill(HEX_LEN, 48) EXCEPT ![1] = 103],
   Overwrite(Fill(HEX_LEN, 48), 3, <<195, 169>>)}

(***************************************************************************)
(* A caller of the library.  id is the identifier it holds; a call leaves  *)
(* what it was given and what it returned in the other variables, until    *)
(* the caller drops them.                                                  *)
(***************************************************************************)
VARIABLES
  id,      \* the identifier held: its 20 bytes
  prev,    \* the identifier as it was before the last call
  op,      \* the last call, "idle" once its values are dropped
  argT,    \* the timestamp given to new or set_timestamp
  argP,    \* the payload given to new or set_payload
  str,     \* the string or buffer the last call returned or was given
  origin,  \* where a parsed string came from
  res,     \* the io::Result of the last parse
  other,   \* the identifier the held one was compared with
  cmp,     \* the outcomes of the comparisons
  call,    \* base62.rs: the function running, "none" when the caller runs
  pc,      \* base62.rs: where it is
  num,     \* change_base: the numerator slice
  out,     \* change_base: the output buffer
  k,       \* change_base: the output index
  in_base,
  out_base,
  given,   \* the numerator the running change_base was given
  first,   \* the numerator the first of two conversions was given
  leg      \* 1 for a conversion, 2 for the conversion back

cbvars == <<call, pc, num, out, k, in_base, out_base, given, first, leg>>

vars == <<id, prev, op, argT, argP, str, origin, res, other, cmp,
          call, pc, num, out, k, in_base, out_base, given, first, leg>>

NoResult ==
  [ok |-> FALSE, panic |-> FALSE, val |-> <<>>, kind |-> "", msg |-> "",
   cb |-> FALSE]

NoCmp == [lt |-> FALSE, lt62 |-> FALSE, lthex |-> FALSE]

\* The converter is not running.
CbOff ==
  /\ call = "none" /\ pc = "off" /\ num = <<>> /\ out = <<>> /\ k = 0
  /\ in_base = 0 /\ out_base = 0 /\ given = <<>> /\ first = <<>>
  /\ leg = 0

\* What a call that takes and returns none of them leaves in the variables.
Observe(o, t, p, s, g, r, y, c) ==
  /\ op' = o /\ argT' = t /\ argP' = p /\ str' = s /\ origin' = g
  /\ res' = r /\ other' = y /\ cmp' = c

\* let id = Ksuid::from_bytes(&b).unwrap()
Init ==
  /\ \E b \in BufSamples :
       /\ from_bytes(b).ok
       /\ id = from_bytes(b).val
       /\ prev = from_bytes(b).val
       /\ other = from_bytes(b).val
       /\ str = b
       /\ res = from_bytes(b)
  /\ op = "from_bytes" /\ origin = "buffer"
  /\ argT = <<0, 0>> /\ argP = <<>> /\ cmp = NoCmp
  /\ CbOff

\* id = Ksuid::new(t, p)
New ==
  /\ op = "idle"
  /\ \E t \in TsSamples, p \in PayloadSamples :
       /\ id' = new(t, p)
       /\ prev' = id
       /\ Observe("new", t, p, <<>>, "", NoResult, new(t, p), NoCmp)
  /\ UNCHANGED cbvars

\* id.set_timestamp(t)
SetTimestamp ==
  /\ op = "idle"
  /\ \E t \in TsSamples :
       /\ id' = set_timestamp(id, t)
       /\ prev' = id
       /\ Observe("set_timestamp", t, <<>>, <<>>, "", NoResult,
                  set_timestamp(id, t), NoCmp)
  /\ UNCHANGED cbvars

\* id.set_time(time); str holds the time given, <<sec, nsec>>.
SetTime ==
  /\ op = "idle"
  /\ \E time \in TimeSamples :
       /\ id' = set_time(id, time)
       /\ prev' = id
       /\ Observe("set_time", timestamp(set_time(id, time)), <<>>,
                  <<time.sec, time.nsec>>, "", NoResult, set_time(id, time),
                  NoCmp)
  /\ UNCHANGED cbvars

\* id = Ksuid::with_payload(p); str holds the clock's time, <<sec, nsec>>.
WithPayload ==
  /\ op = "idle"
  /\ \E now \in TimeSamples, p \in PayloadSamples :
       /\ id' = with_payload(now, p)
       /\ prev' = id
       /\ Observe("with_payload", timestamp(with_payload(now, p)), p,
                  <<now.sec, now.nsec>>, "", NoResult, with_payload(now, p),
                  NoCmp)
  /\ UNCHANGED cbvars

\* id = Ksuid::generate(): rand::random() calls Rand::rand, which is
\* with_payload of 16 bytes drawn from the generator.
Generate ==
  /\ op = "idle"
  /\ \E now \in TimeSamples, p \in PayloadSamples :
       /\ id' = with_payload(now, p)
       /\ prev' = id
       /\ Observe("generate", timestamp(with_payload(now, p)), p,
                  <<now.sec, now.nsec>>, "", NoResult, with_payload(now, p),
                  NoCmp)
  /\ UNCHANGED cbvars

\* id.set_payload(p)
SetPayload ==
  /\ op = "idle"
  /\ \E p \in PayloadSamples :
       /\ id' = set_payload(id, p)
       /\ prev' = id
       /\ Observe("set_payload", <<0, 0>>, p, <<>>, "", NoResult,
                  set_payload(id, p), NoCmp)
  /\ UNCHANGED cbvars

\* Ksuid::from_bytes(raw)
FromBytes ==
  /\ op = "idle"
  /\ \E raw \in {as_bytes(id)} \cup BadBufSamples :
       Observe("from_bytes", <<0, 0>>, <<>>, raw, "buffer", from_bytes(raw),
               id, NoCmp)
  /\ UNCHANGED <<id, prev>>
  /\ UNCHANGED cbvars

\* id.to_base62(); a panic leaves no string.
ToBase62 ==
  /\ op = "idle"
  /\ LET e == to_base62(id)
     IN  Observe(IF e.panic THEN "to_base62 panicked" ELSE "to_base62",
                 <<0, 0>>, <<>>, IF e.panic THEN <<>> ELSE e.out, "", NoResult,
                 id, NoCmp)
  /\ UNCHANGED <<id, prev>>
  /\ UNCHANGED cbvars

\* id.to_hex()
ToHex ==
  /\ op = "idle"
  /\ Observe("to_hex", <<0, 0>>, <<>>, to_hex(id), "", NoResult, id, NoCmp)
  /\ UNCHANGED <<id, prev>>
  /\ UNCHANGED cbvars

\* Ksuid::from_base62(s), of the string to_base62 just returned, of that
\* string altered, or of a string from elsewhere.
FromBase62 ==
  /\ \/ /\ op = "to_base62"
        /\ Observe("from_base62", <<0, 0>>, <<>>, str, "encoded",
                   from_base62(str), id, NoCmp)
     \/ /\ op = "to_base62"
        /\ \E s \in Altered(str) \ {str} :
             Observe("from_base62", <<0, 0>>, <<>>, s, "altered",
                     from_base62(s), id, NoCmp)
     \/ /\ op = "idle"
        /\ \E s \in Base62Samples :
             Observe("from_base62", <<0, 0>>, <<>>, s, "sample",
                     from_base62(s), id, NoCmp)
  /\ UNCHANGED <<id, prev>>
  /\ UNCHANGED cbvars

\* Ksuid::from_hex(s), of the string to_hex just returned, of that string
\* with letters lowercased, of that string altered, or of another string.
FromHex ==
  /\ \/ /\ op = "to_hex"
        /\ Observe("from_hex", <<0, 0>>, <<>>, str, "encoded",
                   from_hex(str), id, NoCmp)
     \/ /\ op = "to_hex"
        /\ \E m \in Masks(Len(str)) :
             Observe("from_hex", <<0, 0>>, <<>>, Lowercased(str, m),
                     "lowercased", from_hex(Lowercased(str, m)), id, NoCmp)
     \/ /\ op = "to_hex"
        /\ \E s \in Altered(str) \ {str} :
             Observe("from_hex", <<0, 0>>, <<>>, s, "altered", from_hex(s),
                     id, NoCmp)
     \/ /\ op = "idle"
        /\ \E s \in HexSamples :
             Observe("from_hex", <<0, 0>>, <<>>, s, "sample", from_hex(s),
                     id, NoCmp)
  /\ UNCHANGED <<id, prev>>
  /\ UNCHANGED cbvars

\* id < y, id.to_base62() < y.to_base62(), id.to_hex() < y.to_hex(), for an
\* identifier y = Ksuid::new(t, p).
Compare ==
  /\ op = "idle"
  /\ \E t \in TsSamples, p \in PayloadSamples :
       LET y == new(t, p)
           ex == to_base62(id)
           ey == to_base62(y)
       IN  /\ ~ex.panic /\ ~ey.panic
           /\ Observe("compare", t, p, <<>>, "", NoResult, y,
                      [lt |-> KsuidLess(id, y),
                       lt62 |-> SliceLess(ex.out, ey.out),
                       lthex |-> SliceLess(to_hex(id), to_hex(y))])
  /\ UNCHANGED <<id, prev>>
  /\ UNCHANGED cbvars

\* The caller lets go of what the last call was given and returned.
Drop ==
  /\ op # "idle"
  /\ Observe("idle", <<0, 0>>, <<>>, <<>>, "", NoResult, id, NoCmp)
  /\ prev' = id
  /\ UNCHANGED id
  /\ UNCHANGED cbvars

Next ==
  \/ New
  \/ SetTimestamp
  \/ SetTime
  \/ WithPayload
  \/ Generate
  \/ SetPayload
  \/ FromBytes
  \/ ToBase62
  \/ ToHex
  \/ FromBase62
  \/ FromHex
  \/ Compare
  \/ Drop

Spec == Init /\ [][Next]_vars

(***************************************************************************)
(* The converter of base62.rs, one iteration of its loop at a time, called *)
(* the way its tests and encode_raw and decode_raw call it.                *)
(***************************************************************************)
\* The longest numerator given.
MaxNumLen == 3

\* The longest output buffer given.
MaxOutLen == 6

\* (in_base, out_base) of the calls of change_base itself.
BasePairs == {<<256, 62>>, <<62, 256>>, <<10, 2>>, <<2, 10>>}

\* Digits of a base: the least, the greatest and two between.
DigitSamples(base) == {0, 1, base \div 2, base - 1}

\* Bytes of a string given to decode_raw: '0', 'V', 'z', '!', and 0xC3.
CharSamples == {48, 86, 122, 33, 195}

SeqsUpTo(S, n) == UNION {[1..m -> S] : m \in 0..n}

\* The numerator of tests::test_change_base.
TestVector == <<255, 254, 253, 252>>

\* The caller's variables while only the converter is looked at.
CallerIdle ==
  /\ id = EMPTY /\ prev = EMPTY /\ op = "idle" /\ argT = <<0, 0>>
  /\ argP = <<>> /\ str = <<>> /\ origin = "" /\ other = EMPTY
  /\ cmp = NoCmp

callervars == <<id, prev, op, argT, argP, str, origin, other, cmp>>

\* A call is entered: change_base(num, out, in_base, out_base) with out
\* zeroed, encode_raw(input, output) or decode_raw(input, output).
InitCB ==
  /\ CallerIdle
  /\ res = NoResult
  /\ leg = 1
  /\ \E n \in 0..MaxOutLen : out = Zeros(n) /\ k = n
  /\ \/ /\ call = "change_base" /\ pc = "loop"
        /\ \E b \in BasePairs :
             /\ in_base = b[1] /\ out_base = b[2]
             /\ num \in SeqsUpTo(DigitSamples(b[1]), MaxNumLen)
                        \cup {d \in {TestVector} : b[1] = 256}
        /\ given = num /\ first = num
     \/ /\ call = "encode_raw" /\ pc = "loop"
        /\ in_base = 256 /\ out_base = 62
        /\ num \in SeqsUpTo(DigitSamples(256), MaxNumLen)
        /\ given = num /\ first = num
     \/ /\ call = "decode_raw" /\ pc = "digits"
        /\ in_base = 62 /\ out_base = 256
        /\ num \in SeqsUpTo(CharSamples, MaxNumLen)
        /\ given = <<>> /\ first = <<>>

\* decode_raw's first loop: the characters become digits in place, or the
\* call returns the error of the first bad one, the characters before it
\* already digits.
DecodeDigits ==
  /\ pc = "digits"
  /\ LET m == MapDigits(num, 1)
     IN  IF m.err
         THEN /\ pc' = "err"
              /\ res' = Err(InvalidData(m.msg), FALSE)
              /\ num' = m.digits
              /\ UNCHANGED <<given, first>>
         ELSE /\ pc' = "loop"
              /\ num' = m.digits
              /\ given' = m.digits
              /\ first' = m.digits
              /\ UNCHANGED res
  /\ UNCHANGED <<call, out, k, in_base, out_base, leg>>
  /\ UNCHANGED callervars

\* One iteration of change_base's while loop.
Iterate ==
  /\ pc = "loop"
  /\ Len(num) > 0
  /\ LET s == LoopBody(num, out, k, in_base, out_base)
     IN  /\ pc' = IF s.panic THEN "panic" ELSE "loop"
         /\ num' = s.num
         /\ out' = s.out
         /\ k' = s.k
  /\ UNCHANGED <<call, in_base, out_base, given, first, leg, res>>
  /\ UNCHANGED callervars

\* The while test fails and change_base returns: encode_raw goes on to its
\* second loop, decode_raw returns Ok(()).
Return ==
  /\ pc = "loop"
  /\ Len(num) = 0
  /\ pc' = IF call = "encode_raw" THEN "chars" ELSE "done"
  /\ res' = IF call = "decode_raw" THEN Ok(out, TRUE) ELSE res
  /\ UNCHANGED <<call, num, out, k, in_base, out_base, given, first, leg>>
  /\ UNCHANGED callervars

\* encode_raw's second loop, and its return.
EncodeChars ==
  /\ pc = "chars"
  /\ out' = MapChars(out)
  /\ pc' = "done"
  /\ UNCHANGED <<call, num, k, in_base, out_base, given, first, leg, res>>
  /\ UNCHANGED callervars

\* tests::test_change_base: the result is converted back, into a zeroed
\* buffer as long as the first numerator.
ConvertBack ==
  /\ pc = "done" /\ call = "change_base" /\ leg = 1
  /\ leg' = 2
  /\ num' = out
  /\ given' = out
  /\ out' = Zeros(Len(first))
  /\ k' = Len(first)
  /\ in_base' = out_base
  /\ out_base' = in_base
  /\ pc' = "loop"
  /\ UNCHANGED <<call, first, res>>
  /\ UNCHANGED callervars

NextCB ==
  \/ DecodeDigits
  \/ Iterate
  \/ Return
  \/ EncodeChars
  \/ ConvertBack

SpecCB == InitCB /\ [][NextCB]_vars

(***************************************************************************)
(* What a digit string denotes, told without division: the digits of one   *)
(* base are rebuilt in another by multiplying and adding, place by place.  *)
(***************************************************************************)
RECURSIVE Strip(_)
Strip(ds) == IF Len(ds) > 0 /\ ds[1] = 0 THEN Strip(Tail(ds)) ELSE ds

RECURSIVE CarryDigits(_, _)
CarryDigits(c, base) ==
  IF c = 0 THEN <<>> ELSE Append(CarryDigits(c \div base, base), c % base)

\* The digits, in base, of (the number ds denotes in base) * m + carry,
\* worked from place i down to the first.
RECURSIVE MulAdd(_, _, _, _, _)
MulAdd(ds, i, m, carry, base) ==
  IF i = 0 THEN CarryDigits(carry, base) \o ds
  ELSE MulAdd([ds EXCEPT ![i] = (ds[i] * m + carry) % base], i - 1, m,
              (ds[i] * m + carry) \div base, base)

\* The digits, in base to, of the number the first n digits of ds denote in
\* base from.
RECURSIVE Rebase(_, _, _, _)
Rebase(ds, n, from, to) ==
  IF n = 0 THEN <<>>
  ELSE LET hi == Rebase(ds, n - 1, from, to)
       IN  Strip(MulAdd(hi, Len(hi), from, ds[n], to))

\* a in base ba and b in base bb denote the same number.
SameNumber(a, ba, b, bb) == Rebase(a, Len(a), ba, bb) = Strip(b)

\* The digits change_base writes for numerator ds: those of its number in
\* base to, one digit for zero, none for the empty numerator.
DigitsWritten(ds, from, to) ==
  IF Len(ds) = 0 THEN 0
  ELSE IF Len(Rebase(ds, Len(ds), from, to)) = 0 THEN 1
  ELSE Len(Rebase(ds, Len(ds), from, to))

\* The buffer has a place for every digit the running change_base writes.
EnoughRoom == DigitsWritten(given, in_base, out_base) <= Len(out)

\* change_base has returned to its caller.
Returned == pc = "chars" \/ (pc = "done" /\ call # "encode_raw")

(***************************************************************************)
(* The claims                                                              *)
(***************************************************************************)
\* The value of an upper-case hex digit.
HexValue(c) == IF c \in 48..57 THEN c - 48 ELSE c - 55

\* s is 27 bytes and greater than MAX_BASE62_KSUID byte for byte.
TooLarge(s) == Len(s) = BASE62_LEN /\ SliceLess(MAX_BASE62_KSUID, s)

\* The places of s that hold a byte outside [0-9A-Za-z].
BadPlaces(s) ==
  {i \in 1..Len(s) : IF s[i] >= 128 THEN TRUE ELSE b62_to_bin(s[i]) < 0}

FirstBadPlace(s) == CHOOSE i \in BadPlaces(s) : \A j \in BadPlaces(s) : i <= j

\* The error from_base62 returns for a string of the wrong length.
LengthError == <<from_base62(<<>>).kind, from_base62(<<>>).msg>>

\* The errors decode_raw returns for a character that is no Base62 digit.
CharacterErrors ==
  {<<decode_raw(<<c>>, <<0>>).kind, decode_raw(<<c>>, <<0>>).msg>> :
     c \in {33, 195}}

\* C1: Base62 round trip.  from_bytes of a 20-byte buffer succeeds and holds
\* those bytes; to_base62 of an identifier returns (it does not panic) a
\* string of 27 characters; and from_base62 of that string succeeds with an
\* identifier whose bytes are the ones encoded.
C1_Base62RoundTrip ==
  /\ (op = "from_bytes" /\ Len(str) = LEN) => (res.ok /\ res.val = str)
  /\ op # "to_base62 panicked"
  /\ op = "to_base62" => Len(str) = BASE62_LEN
  /\ (op = "from_base62" /\ origin = "encoded") =>
       (res.ok /\ res.val = as_bytes(id))

\* The documented identifier was encoded and its string parsed back.
C1_Witness ==
  /\ op = "from_base62" /\ origin = "encoded"
  /\ id = new(<<1449, 24097>>, VectorPayload)
  /\ Len(str) = BASE62_LEN
  /\ res.ok

\* C2: ordering preservation.  For identifiers x and y, x < y byte for byte
\* exactly when x.to_base62() < y.to_base62() as strings, and exactly when
\* x.to_hex() < y.to_hex() as strings.
C2_OrderPreserved ==
  op = "compare" => ((cmp.lt <=> cmp.lt62) /\ (cmp.lt <=> cmp.lthex))

\* Two distinct identifiers of one timestamp were compared, the held one
\* the lesser in all three orders.
C2_Witness ==
  /\ op = "compare"
  /\ timestamp(id) = timestamp(other)
  /\ cmp.lt /\ cmp.lt62 /\ cmp.lthex

\* C3: K-sortability.  For x and y built by new(t, p): if x.timestamp() <
\* y.timestamp() then x < y whatever the payloads; with equal timestamps the
\* order of x and y is the lexicographic order of their payloads; and the
\* Base62 strings are ordered the same way.
C3_KSortable ==
  op = "compare" =>
    /\ id = new(timestamp(id), payload(id))
    /\ other = new(argT, argP)
    /\ timestamp(other) = argT
    /\ U32Less(timestamp(id), timestamp(other)) => (cmp.lt /\ cmp.lt62)
    /\ U32Less(timestamp(other), timestamp(id)) => (~cmp.lt /\ ~cmp.lt62)
    /\ timestamp(id) = timestamp(other) =>
         /\ cmp.lt <=> SliceLess(payload(id), payload(other))
         /\ cmp.lt62 <=> SliceLess(payload(id), payload(other))

\* The held identifier has the earlier timestamp and the greater payload,
\* and compares less.
C3_Witness ==
  /\ op = "compare"
  /\ U32Less(timestamp(id), timestamp(other))
  /\ SliceLess(payload(other), payload(id))
  /\ cmp.lt /\ cmp.lt62

\* C4: hex round trip.  to_hex returns exactly 40 characters of [0-9A-F],
\* two per byte with the high nibble first; from_hex of that string
\* succeeds with the bytes encoded, and does so too when letters of the
\* string are lowercased.
C4_HexRoundTrip ==
  /\ op = "to_hex" =>
       /\ Len(str) = HEX_LEN
       /\ \A i \in 1..Len(str) : str[i] \in 48..57 \cup 65..70
       /\ \A n \in 1..LEN :
            16 * HexValue(str[2 * n - 1]) + HexValue(str[2 * n]) = id[n]
  /\ (op = "from_hex" /\ origin \in {"encoded", "lowercased"}) =>
       (res.ok /\ res.val = as_bytes(id))

\* A hex string with a letter really lowercased was parsed.
C4_Witness ==
  /\ op = "from_hex" /\ origin = "lowercased"
  /\ \E i \in 1..Len(str) : str[i] \in 97..102
  /\ res.ok /\ res.val = as_bytes(id)

\* C5 as claimed: from_base62 of a 27-character string greater than the
\* maximum fails, without running the base conversion, with an error of a
\* kind of its own, distinct from the error for a wrong length and from the
\* errors for a bad character.
C5_ValueTooLargeIsDistinct ==
  (op = "from_base62" /\ TooLarge(str)) =>
    /\ ~res.ok /\ ~res.panic /\ ~res.cb
    /\ <<res.kind, res.msg>> # LengthError
    /\ <<res.kind, res.msg>> \notin CharacterErrors

\* C5, amended: from_base62 of a 27-character string greater than the
\* maximum fails, without running the base conversion, with the InvalidData
\* error "Invalid id", which is the very error a string of the wrong length
\* gets; the bad-character errors are of the same kind, InvalidData, and
\* differ from it by their message.
C5_TooLargeRejected ==
  /\ (op = "from_base62" /\ TooLarge(str)) =>
       /\ ~res.ok /\ ~res.panic /\ ~res.cb
       /\ res.kind = "InvalidData" /\ res.msg = "Invalid id"
       /\ <<res.kind, res.msg>> = LengthError
       /\ \A e \in CharacterErrors : e[1] = res.kind /\ e[2] # res.msg
  /\ (op = "from_base62" /\ Len(str) # BASE62_LEN) =>
       (~res.ok /\ ~res.cb /\ <<res.kind, res.msg>> = LengthError)

\* The string after the maximum, "aWgEPTl1tmebfsQzFP4bxwgy80W", was parsed.
C5_Witness ==
  /\ op = "from_base62"
  /\ str = [MAX_BASE62_KSUID EXCEPT ![BASE62_LEN] = 87]
  /\ BadPlaces(str) = {}
  /\ ~res.ok

\* C6 as claimed: from_base62 of a 27-byte string with a byte outside
\* [0-9A-Za-z] fails with a bad-character error, wherever the byte stands
\* and whatever the other bytes are, before any conversion arithmetic.
C6_BadCharacterAlwaysReported ==
  (op = "from_base62" /\ Len(str) = BASE62_LEN /\ BadPlaces(str) # {}) =>
    /\ ~res.ok /\ ~res.panic /\ ~res.cb
    /\ <<res.kind, res.msg>> \in CharacterErrors

\* C6, amended: from_base62 of a 27-byte string with a byte outside
\* [0-9A-Za-z] fails with an InvalidData error before any conversion
\* arithmetic.  When the string is not greater than the maximum the error is
\* a bad-character one, told by the first bad byte: "Non-ASCII character in
\* input" for a byte >= 128, else "Invalid base62 character in input".  When
\* the string is greater than the maximum the error is "Invalid id".
C6_BadCharacterRejected ==
  (op = "from_base62" /\ Len(str) = BASE62_LEN /\ BadPlaces(str) # {}) =>
    /\ ~res.ok /\ ~res.panic /\ ~res.cb
    /\ res.kind = "InvalidData"
    /\ res.msg = IF TooLarge(str) THEN "Invalid id"
                 ELSE IF str[FirstBadPlace(str)] >= 128
                 THEN "Non-ASCII character in input"
                 ELSE "Invalid base62 character in input"

\* A string not greater than the maximum, with '!' for its last character,
\* was parsed.
C6_Witness ==
  /\ op = "from_base62" /\ Len(str) = BASE62_LEN
  /\ ~TooLarge(str)
  /\ BadPlaces(str) = {BASE62_LEN} /\ str[BASE62_LEN] = 33
  /\ res.msg = "Invalid base62 character in input"

\* C7: maximum bound.  new(u32::MAX, [255; 16]) is the identifier of 20
\* bytes 0xFF; its to_base62() is exactly "aWgEPTl1tmebfsQzFP4bxwgy80V"; and
\* from_base62 of that string succeeds with 20 bytes 0xFF.
C7_MaximumBound ==
  /\ (op = "new" /\ argT = <<65535, 65535>> /\ argP = Fill(PAYLOAD_LEN, 255))
       => id = Fill(LEN, 255)
  /\ (op = "to_base62" /\ id = Fill(LEN, 255)) => str = MAX_BASE62_KSUID
  /\ (op = "from_base62" /\ str = MAX_BASE62_KSUID) =>
       (res.ok /\ res.val = Fill(LEN, 255))

\* The greatest identifier was encoded and its string parsed back.
C7_Witness ==
  /\ op = "from_base62" /\ origin = "encoded"
  /\ id = Fill(LEN, 255)
  /\ str = MAX_BASE62_KSUID
  /\ res.ok

\* C8: field independence.  new(t, p) has timestamp() = t and payload() = p;
\* set_payload(p) leaves bytes 0..4, and so timestamp(), as they were and
\* makes payload() = p; set_timestamp(t) leaves bytes 4..20, and so
\* payload(), as they were and writes t big-endian into bytes 0..4.
C8_FieldIndependence ==
  /\ Len(id) = LEN
  /\ op = "new" => (timestamp(id) = argT /\ payload(id) = argP)
  /\ op = "set_payload" =>
       /\ SubSeq(id, 1, 4) = SubSeq(prev, 1, 4)
       /\ timestamp(id) = timestamp(prev)
       /\ payload(id) = argP
  /\ op = "set_timestamp" =>
       /\ SubSeq(id, 5, LEN) = SubSeq(prev, 5, LEN)
       /\ payload(id) = payload(prev)
       /\ timestamp(id) = argT
       /\ 256 * id[1] + id[2] = argT[1]
       /\ 256 * id[3] + id[4] = argT[2]

\* set_payload changed the payload of an identifier whose timestamp is not 0.
C8_Witness ==
  /\ op = "set_payload"
  /\ payload(id) # payload(prev)
  /\ timestamp(id) # <<0, 0>>
  /\ timestamp(id) = timestamp(prev)

\* Every digit of ds is a digit of base.
DigitsOf(ds, base) == \A i \in 1..Len(ds) : ds[i] \in 0..(base - 1)

\* C9: change_base preserves the number.  Given digits of in_base and a
\* zeroed buffer with room, the loop ends with the numerator empty, after as
\* many iterations as the number has digits in out_base, and never panics;
\* out then holds, big-endian, the out_base digits of the number the
\* numerator denoted in in_base, its unused leading places still zero; and
\* converting that back gives the first digits again, up to leading zeros.
C9_ChangeBasePreservesValue ==
  (pc \in {"loop", "chars", "done", "panic"} /\ EnoughRoom) =>
    /\ pc # "panic"
    /\ k \in 0..Len(out)
    /\ pc = "loop" =>
         /\ DigitsOf(num, in_base)
         /\ Len(out) - k <= DigitsWritten(given, in_base, out_base)
         /\ Len(num) = 0 <=>
              Len(out) - k = DigitsWritten(given, in_base, out_base)
    /\ Returned =>
         /\ Len(num) = 0
         /\ DigitsOf(out, out_base)
         /\ SameNumber(given, in_base, out, out_base)
         /\ \A i \in 1..k : out[i] = 0
    /\ (Returned /\ leg = 2) => Strip(out) = Strip(first)

\* The numerator of the crate's test went to base 62 and back.
C9_Witness ==
  /\ call = "change_base" /\ pc = "done" /\ leg = 2
  /\ first = TestVector
  /\ Strip(out) = TestVector

\* The number given has more digits in out_base than the buffer has places.
ValueTooLong == Len(Rebase(given, Len(given), in_base, out_base)) > Len(out)

\* C10 as claimed: when the buffer is too small to hold the converted
\* value, the call ends by returning an error value the caller can tell
\* from success; it does not panic.
C10_TooSmallIsAnError ==
  (pc \in {"chars", "done", "err", "panic"} /\ ValueTooLong) =>
    (pc = "err" /\ ~res.ok /\ res.kind # "")

\* C10, amended: when the buffer has fewer places than change_base writes
\* digits (the digits of the number in out_base; one digit for the number
\* zero of a non-empty numerator), the call panics, as the module's
\* documentation says: it returns nothing, neither an error value nor a
\* truncated result.  The panic comes in the iteration that finds k = 0; a
\* call that returns had room, and the only error value, decode_raw's, is
\* for a bad character.
C10_TooSmallPanics ==
  /\ (pc \in {"chars", "done", "err", "panic"} /\ ~EnoughRoom) => pc = "panic"
  /\ (pc = "loop" /\ ~EnoughRoom) =>
       (Len(num) > 0 /\ Len(out) - k < DigitsWritten(given, in_base, out_base))
  /\ ValueTooLong => ~EnoughRoom
  /\ pc = "panic" => (~EnoughRoom /\ k = 0 /\ res = NoResult)
  /\ pc \in {"chars", "done"} => EnoughRoom
  /\ pc = "err" =>
       (call = "decode_raw" /\ <<res.kind, res.msg>> \in CharacterErrors)

\* encode_raw panicked on a buffer one place short.
C10_Witness ==
  /\ call = "encode_raw" /\ pc = "panic"
  /\ Len(out) + 1 = DigitsWritten(given, in_base, out_base)

\* s passes the three checks of from_base62: it is 27 bytes, it is not
\* greater than the maximum, and every byte of it is a Base62 character.
PassesChecks(s) ==
  Len(s) = BASE62_LEN /\ ~TooLarge(s) /\ BadPlaces(s) = {}

\* The digits decode_raw hands to change_base for a string of Base62
\* characters.
StringDigits(s) == MapDigits(s, 1).digits

\* The digits of ds taken two at a time, as digits of base * base; an odd
\* count gets a leading zero first.
PairUp(ds, base) ==
  LET e == IF Len(ds) % 2 = 1 THEN <<0>> \o ds ELSE ds
  IN  [i \in 1..(Len(e) \div 2) |-> e[2 * i - 1] * base + e[2 * i]]

\* How many digits of base to the number of ds (digits of base from) has,
\* counted as change_base writes them: one for zero, none for the empty
\* numerator.  The number is rebuilt two digits at a time, by multiplying
\* and adding in base to * to; its first double digit counts once when it is
\* less than to.
DigitsNeeded(ds, from, to) ==
  LET w == PairUp(ds, from)
      r == Rebase(w, Len(w), from * from, to * to)
  IN  IF Len(ds) = 0 THEN 0
      ELSE IF Len(r) = 0 THEN 1
      ELSE IF r[1] < to THEN 2 * Len(r) - 1
      ELSE 2 * Len(r)

\* C11: the buffer-too-small panic cannot be reached through the Ksuid API.
\* Every identifier held has at most 27 digits in base 62, and to_base62
\* returns with change_base's index k at 27 less the digits written, never
\* panicking.  from_base62 never panics; it enters change_base exactly for
\* the strings that pass its length check, its comparison with the maximum
\* and the character check, and the number of such a string has at most 20
\* digits in base 256, so that k ends at 20 less the digits written and the
\* call succeeds.  The comparison is what keeps the rest out: a string of 27
\* Base62 characters greater than the maximum denotes a number of more than
\* 20 bytes.
C11_BufferAlwaysSuffices ==
  /\ DigitsNeeded(id, 256, 62) <= BASE62_LEN
  /\ op # "to_base62 panicked"
  /\ op = "to_base62" =>
       LET c == change_base(id, Zeros(BASE62_LEN), 256, 62)
       IN  /\ ~c.panic
           /\ c.k = BASE62_LEN - DigitsNeeded(id, 256, 62)
  /\ op = "from_base62" =>
       /\ ~res.panic
       /\ res.cb <=> PassesChecks(str)
       /\ PassesChecks(str) =>
            LET c == change_base(StringDigits(str), EMPTY, 62, 256)
            IN  /\ DigitsNeeded(StringDigits(str), 62, 256) <= LEN
                /\ ~c.panic
                /\ c.k = LEN - DigitsNeeded(StringDigits(str), 62, 256)
                /\ res.ok
       /\ (Len(str) = BASE62_LEN /\ BadPlaces(str) = {} /\ TooLarge(str)) =>
            DigitsNeeded(StringDigits(str), 62, 256) > LEN

\* An identifier that fills all 27 digits was encoded, and its string, other
\* than the maximum and filling all 20 bytes, was parsed back by a
\* conversion that ran.
C11_Witness ==
  /\ op = "from_base62" /\ origin = "encoded"
  /\ str # MAX_BASE62_KSUID
  /\ PassesChecks(str)
  /\ res.ok /\ res.cb /\ res.val = id
  /\ DigitsNeeded(id, 256, 62) = BASE62_LEN
  /\ DigitsNeeded(StringDigits(str), 62, 256) = LEN

=============================================================================
